---- MODULE Spec2Model ----
(***************************************************************************)
(* Model of plc_logger_gui.py: the Tk main thread's button handlers        *)
(* (Connect, Start, Stop, Resume, Export, Clear), the daemon poll threads  *)
(* started by Start/Resume (PLCLoggerGUI._poll), the in-memory table       *)
(* data_df, the temp CSV file, and the byte decoder _parse_data.  The      *)
(* variable rows of the form stay as __init__ built them (from the temp    *)
(* file, or the one default row); the interval entry is free text.         *)
(*                                                                         *)
(* The handlers run on the one Tk thread (ui is its position); the poll    *)
(* threads run concurrently with it and with each other, so a handler or a *)
(* poll cycle is cut into steps at its accesses to shared state.           *)
(* File-system and plotting calls are assumed not to raise; the plot       *)
(* itself (_update_plot) holds no state the logger reads back and is not   *)
(* modelled.                                                               *)
(***************************************************************************)
EXTENDS Integers, Sequences, FiniteSets, TLC

\* ------------------------------------------------------------------ bounds
\* Poll threads that can be alive at once (Start/Resume wait for a free slot).
MaxThreads == 2
\* Poll cycles begun in one run (datetime.now() is the cycle's number).
MaxCycles == 2

Threads == 1..MaxThreads

\* ------------------------------------------------------- _parse_data (23-34)
\* int.from_bytes(b, byteorder="big", signed=False)
RECURSIVE FromBytesBigUnsigned(_)
FromBytesBigUnsigned(b) ==
    IF b = <<>> THEN 0
    ELSE FromBytesBigUnsigned(SubSeq(b, 1, Len(b) - 1)) * 256 + b[Len(b)]

\* int.from_bytes(b, byteorder="little", signed=True)
FromBytesLittleSigned(b) ==
    IF b = <<>> THEN 0
    ELSE LET n == Len(b)
             r == [i \in 1..n |-> b[n + 1 - i]]
             hi == IF r[1] >= 128 THEN r[1] - 256 ELSE r[1]
             pow == [k \in 0..3 |-> IF k = 0 THEN 1 ELSE IF k = 1 THEN 256
                                     ELSE IF k = 2 THEN 65536 ELSE 16777216]
         IN hi * pow[n - 1] + FromBytesBigUnsigned(SubSeq(r, 2, n))

\* int.from_bytes(b, byteorder="big", signed=True): the two's-complement value
\* of the bytes, most significant first; the empty slice gives 0.  The top
\* byte carries the sign, so the sum stays inside 32 bits for 4 bytes.
FromBytesBigSigned(b) ==
    IF b = <<>> THEN 0
    ELSE LET n == Len(b)
             hi == IF b[1] >= 128 THEN b[1] - 256 ELSE b[1]
             pow == [k \in 0..3 |-> IF k = 0 THEN 1 ELSE IF k = 1 THEN 256
                                     ELSE IF k = 2 THEN 65536 ELSE 16777216]
         IN hi * pow[n - 1] + FromBytesBigUnsigned(SubSeq(b, 2, n))

\* data[0:k]
Slice(data, k) == SubSeq(data, 1, IF Len(data) < k THEN Len(data) ELSE k)

\* struct.unpack(">f", b)[0] for 4 bytes: the IEEE-754 binary32 fields.
UnpackFloatBig(b) ==
    [tag |-> "float",
     sign |-> b[1] \div 128,
     exponent |-> (b[1] % 128) * 2 + b[2] \div 128,
     mantissa |-> (b[2] % 128) * 65536 + b[3] * 256 + b[4]]

Raise(exc) == [tag |-> "raise", exc |-> exc]
Pending == [tag |-> "pending"]

\* A decoder that reads INT and DINT little-endian.
ParseDataLittleEndian(data, data_type) ==
    IF data_type = "BOOL"
    THEN IF Len(data) = 0 THEN Raise("IndexError")
         ELSE [tag |-> "bool", b |-> (data[1] # 0)]
    ELSE IF data_type = "INT"
    THEN [tag |-> "int", v |-> FromBytesLittleSigned(Slice(data, 2))]
    ELSE IF data_type = "DINT"
    THEN [tag |-> "int", v |-> FromBytesLittleSigned(Slice(data, 4))]
    ELSE IF data_type = "REAL"
    THEN IF Len(Slice(data, 4)) # 4 THEN Raise("struct.error")
         ELSE UnpackFloatBig(Slice(data, 4))
    ELSE Raise("ValueError")

_parse_data(data, data_type) ==
    IF data_type = "BOOL"
    THEN IF Len(data) = 0 THEN Raise("IndexError")
         ELSE [tag |-> "bool", b |-> (data[1] # 0)]
    ELSE IF data_type = "INT"
    THEN [tag |-> "int", v |-> FromBytesBigSigned(Slice(data, 2))]
    ELSE IF data_type = "DINT"
    THEN [tag |-> "int", v |-> FromBytesBigSigned(Slice(data, 4))]
    ELSE IF data_type = "REAL"
    THEN IF Len(Slice(data, 4)) # 4 THEN Raise("struct.error")
         ELSE UnpackFloatBig(Slice(data, 4))
    ELSE Raise("ValueError")

\* ------------------------------------------------------------------ state
VARIABLES
    snap7,           \* TRUE iff "import snap7" succeeded (15-18)
    client,          \* self.client: "None" or "Client" (53)
    polling,         \* self.polling (54)
    variable_rows,   \* self.variable_rows: the db/start/type StringVars (57), as __init__ left them
    active_vars,     \* self.active_vars: (db, start, type) tuples (58)
    data_df,         \* self.data_df: the rows of the in-memory table (62)
    temp_file,       \* the file at self.temp_file (61)
    exported,        \* the .xlsx written by the step just taken, if it wrote one
    dialog,          \* the message box opened by the step just taken, "none" if none
    ui,              \* position of the Tk thread: "idle" or inside a handler
    clock,           \* datetime.now(): number of poll cycles begun so far
    pc,              \* per poll thread: its position in _poll, "none" if not running
    read_settings,   \* per poll thread: local read_settings (213-216)
    idx,             \* per poll thread: position of the for loop at 220
    row,             \* per poll thread: local row dict (218)
    tmp_df,          \* per poll thread: self.data_df as loaded by pd.concat's argument (225)
    header,          \* per poll thread: local header of _append_temp_file (280)
    failed,          \* history: timestamps of the cycles that ended in the except clause
    stopped,         \* history: Stop was pressed and neither Start nor Resume since
    p_data,          \* _parse_data on its own: argument data
    p_type,          \* _parse_data on its own: argument data_type
    p_result         \* _parse_data on its own: the result, tagged "pending" before the call

formVars == <<snap7, client, variable_rows, active_vars, ui>>
localVars == <<pc, read_settings, idx, row, tmp_df, header>>
histVars == <<failed, stopped>>
parseVars == <<p_data, p_type, p_result>>
vars == <<snap7, client, polling, variable_rows, active_vars, data_df,
          temp_file, exported, dialog, ui, clock, pc, read_settings, idx, row, tmp_df,
          header, failed, stopped, p_data, p_type, p_result>>

\* --------------------------------------------------------- strings and names
\* str(n) and int(s) on the numbers the form can hold.
IntStrings == <<"0", "1", "2", "3", "4">>
str(n) == IntStrings[n + 1]
IsIntString(s) == \E n \in 0..(Len(IntStrings) - 1) : IntStrings[n + 1] = s
int(s) == CHOOSE n \in 0..(Len(IntStrings) - 1) : IntStrings[n + 1] = s

\* float(s) succeeds (212)
IsFloatString(s) == s \in {"1.0", "0.5"}

\* f"DB{db}_{start}_{data_type}" (223), kept as its "_"-separated parts
ColumnName(db, start, data_type) == <<"DB" \o str(db), str(start), data_type>>

\* parts[0].replace("DB", "") (292)
StripDB(s) ==
    IF \E d \in {IntStrings[i] : i \in 1..Len(IntStrings)} : "DB" \o d = s
    THEN CHOOSE d \in {IntStrings[i] : i \in 1..Len(IntStrings)} : "DB" \o d = s
    ELSE s

\* {"BOOL": 1, "INT": 2, "DINT": 4, "REAL": 4} (215)
ReadLen == [BOOL |-> 1, INT |-> 2, DINT |-> 4, REAL |-> 4]

\* row[col] = value on a dict: cells is the list of (key, value) items
DictSet(cells, key, value) ==
    IF \E i \in 1..Len(cells) : cells[i][1] = key
    THEN [i \in 1..Len(cells) |-> IF cells[i][1] = key THEN <<key, value>> ELSE cells[i]]
    ELSE Append(cells, <<key, value>>)

Keys(cells) == {cells[i][1] : i \in 1..Len(cells)}

NoRow == [timestamp |-> 0, cells |-> <<>>]

\* ---------------------------------------------------------------- temp file
NoFile == [exists |-> FALSE, lines |-> <<>>]
Line(kind, r) == [kind |-> kind, row |-> r]

\* df_row.to_csv(self.temp_file, mode="a", index=False, header=header) (281)
ToCsvAppend(f, r, hdr) ==
    [exists |-> TRUE,
     lines |-> f.lines \o (IF hdr THEN <<Line("header", r)>> ELSE <<>>) \o <<Line("row", r)>>]

\* Data rows pd.read_csv finds: every line after the first, which it takes as header.
DataRows(f) == IF Len(f.lines) = 0 THEN 0 ELSE Len(f.lines) - 1

\* The default row of _add_variable_row (119)
DefaultVariableRow == [db |-> "1", start |-> "0", type |-> "REAL"]

\* _load_temp_data (283-298): the table and the variable rows restored from the file
LoadedTable(f) ==
    IF f.exists /\ Len(f.lines) > 0 /\ f.lines[1].kind = "header"
    THEN [i \in 1..(Len(f.lines) - 1) |-> f.lines[i + 1].row]
    ELSE <<>>

LoadedVariableRows(f) ==
    IF f.exists /\ Len(f.lines) > 0 /\ f.lines[1].kind = "header"
    THEN LET cells == f.lines[1].row.cells
         IN [i \in 1..Len(cells) |->
                [db |-> StripDB(cells[i][1][1]), start |-> cells[i][1][2],
                 type |-> cells[i][1][3]]]
    ELSE <<>>

\* Temp files a previous run, or another program, may have left behind.
\* NoFile: a first run.  ForeignFile: only a header line, naming a type the
\* logger does not know.  EarlierFile: what an earlier run with two variables wrote
\* in one poll cycle.
ForeignFile ==
    [exists |-> TRUE,
     lines |-> <<Line("header", [timestamp |-> 0,
                                 cells |-> << <<ColumnName(1, 0, "WORD"),
                                                [tag |-> "int", v |-> 7]>> >>])>>]
EarlierRow ==
    [timestamp |-> 0,
     cells |-> << <<ColumnName(1, 0, "REAL"), _parse_data(<<63, 128, 0, 0>>, "REAL")>>,
                  <<ColumnName(1, 4, "BOOL"), _parse_data(<<1>>, "BOOL")>> >>]
EarlierFile == ToCsvAppend(NoFile, EarlierRow, TRUE)
InitialTempFiles == {NoFile, ForeignFile, EarlierFile}

NoExport == [written |-> FALSE, rows |-> <<>>]

\* ---------------------------------------------------------------- __init__
IdleLocals ==
    /\ pc = [t \in Threads |-> "none"]
    /\ read_settings = [t \in Threads |-> <<>>]
    /\ idx = [t \in Threads |-> 0]
    /\ row = [t \in Threads |-> NoRow]
    /\ tmp_df = [t \in Threads |-> <<>>]
    /\ header = [t \in Threads |-> FALSE]

Init ==
    /\ snap7 \in BOOLEAN
    /\ client = "None"
    /\ polling = FALSE
    /\ active_vars = <<>>
    /\ temp_file \in InitialTempFiles
    /\ data_df = LoadedTable(temp_file)
    /\ variable_rows = (IF LoadedVariableRows(temp_file) = <<>>
                        THEN <<DefaultVariableRow>>
                        ELSE LoadedVariableRows(temp_file))
    /\ exported = NoExport
    /\ dialog = "none"
    /\ ui = "idle"
    /\ clock = 0
    /\ IdleLocals
    /\ failed = {}
    /\ stopped = FALSE
    /\ p_data = <<>>
    /\ p_type = "BOOL"
    /\ p_result = Pending

\* ------------------------------------------------------- the form's handlers
\* What self.interval_var.get() can return: the entry is free text (48, 96).
IntervalChoices == {"1.0", "abc"}

pollVars == <<polling, data_df, temp_file, clock, pc, read_settings, idx, row, tmp_df,
              header, failed, stopped>>

\* connect, up to the blocking client.connect call (158-169)
ConnectBegin ==
    /\ ui = "idle"
    /\ IF ~snap7
       THEN /\ dialog' = "snap7 missing"
            /\ UNCHANGED <<client, ui>>
       ELSE /\ client' = "None"
            /\ ui' = "connect"
            /\ dialog' = "none"
    /\ exported' = NoExport
    /\ UNCHANGED <<snap7, variable_rows, active_vars>>
    /\ UNCHANGED pollVars
    /\ UNCHANGED parseVars

\* connect, from the return of client.connect (169-175)
ConnectEnd ==
    /\ ui = "connect"
    /\ \E connected \in BOOLEAN :
          IF connected
          THEN /\ client' = "Client"
               /\ dialog' = "Connected"
          ELSE /\ client' = client
               /\ dialog' = "Connection error"
    /\ ui' = "idle"
    /\ exported' = NoExport
    /\ UNCHANGED <<snap7, variable_rows, active_vars>>
    /\ UNCHANGED pollVars
    /\ UNCHANGED parseVars

\* threading.Thread(target=self._poll, daemon=True).start() (194, 209)
FreeSlot == \E t \in Threads : pc[t] = "none"
NewThread == CHOOSE t \in Threads : pc[t] = "none" /\ \A u \in Threads : pc[u] = "none" => t <= u
StartThread == pc' = [pc EXCEPT ![NewThread] = "init"]

\* Start or Resume was pressed: the history of the last Stop ends.
Pressed ==
    /\ stopped' = FALSE
    /\ failed' = failed

\* start_polling, its guards and self.active_vars = [] (178-184)
StartBegin ==
    /\ ui = "idle"
    /\ Pressed
    /\ IF client = "None"
       THEN /\ dialog' = "Not connected"
            /\ UNCHANGED <<active_vars, ui>>
       ELSE IF polling
       THEN /\ dialog' = "none"
            /\ UNCHANGED <<active_vars, ui>>
       ELSE /\ FreeSlot
            /\ active_vars' = <<>>
            /\ ui' = "start"
            /\ dialog' = "none"
    /\ exported' = NoExport
    /\ UNCHANGED <<snap7, client, variable_rows>>
    /\ UNCHANGED <<polling, data_df, temp_file, clock>>
    /\ UNCHANGED localVars
    /\ UNCHANGED parseVars

\* start_polling, one turn of its for loop (185-192); int() of a field that is
\* no number raises ValueError and the handler ends there.
StartAppend ==
    /\ ui = "start"
    /\ Len(active_vars) < Len(variable_rows)
    /\ LET r == variable_rows[Len(active_vars) + 1]
       IN IF IsIntString(r.db) /\ IsIntString(r.start)
          THEN /\ active_vars' = Append(active_vars, <<int(r.db), int(r.start), r.type>>)
               /\ ui' = "start"
          ELSE /\ active_vars' = active_vars
               /\ ui' = "idle"
    /\ dialog' = "none"
    /\ exported' = NoExport
    /\ UNCHANGED <<snap7, client, variable_rows>>
    /\ UNCHANGED pollVars
    /\ UNCHANGED parseVars

\* start_polling, self.polling = True and the thread's start (193-194)
StartSpawn ==
    /\ ui = "start"
    /\ Len(active_vars) = Len(variable_rows)
    /\ polling' = TRUE
    /\ StartThread
    /\ ui' = "idle"
    /\ dialog' = "none"
    /\ exported' = NoExport
    /\ UNCHANGED <<snap7, client, variable_rows, active_vars>>
    /\ UNCHANGED <<data_df, temp_file, clock, read_settings, idx, row, tmp_df, header>>
    /\ UNCHANGED histVars
    /\ UNCHANGED parseVars

\* stop_polling (196-197)
StopPolling ==
    /\ ui = "idle"
    /\ polling' = FALSE
    /\ stopped' = TRUE
    /\ failed' = failed
    /\ dialog' = "none"
    /\ exported' = NoExport
    /\ UNCHANGED <<snap7, client, variable_rows, active_vars, ui>>
    /\ UNCHANGED <<data_df, temp_file, clock>>
    /\ UNCHANGED localVars
    /\ UNCHANGED parseVars

\* resume_polling (199-209); with no active_vars it goes through start_polling
ResumePolling ==
    /\ ui = "idle"
    /\ Pressed
    /\ IF client = "None"
       THEN /\ dialog' = "Not connected"
            /\ UNCHANGED <<active_vars, ui, polling, pc>>
       ELSE IF polling
       THEN /\ dialog' = "none"
            /\ UNCHANGED <<active_vars, ui, polling, pc>>
       ELSE IF active_vars = <<>>
       THEN /\ FreeSlot
            /\ active_vars' = <<>>
            /\ ui' = "start"
            /\ dialog' = "none"
            /\ UNCHANGED <<polling, pc>>
       ELSE /\ FreeSlot
            /\ polling' = TRUE
            /\ StartThread
            /\ dialog' = "none"
            /\ UNCHANGED <<active_vars, ui>>
    /\ exported' = NoExport
    /\ UNCHANGED <<snap7, client, variable_rows>>
    /\ UNCHANGED <<data_df, temp_file, clock>>
    /\ UNCHANGED <<read_settings, idx, row, tmp_df, header>>
    /\ UNCHANGED parseVars

\* export_excel, the empty check and the opening of the file dialog (255-261)
ExportBegin ==
    /\ ui = "idle"
    /\ IF data_df = <<>>
       THEN /\ dialog' = "No data"
            /\ ui' = "idle"
       ELSE /\ dialog' = "none"
            /\ ui' = "export"
    /\ exported' = NoExport
    /\ UNCHANGED <<snap7, client, variable_rows, active_vars>>
    /\ UNCHANGED pollVars
    /\ UNCHANGED parseVars

\* An export that also empties the table.
ExportAndClear ==
    /\ ui = "export"
    /\ \E choice \in {"cancel", "save", "ImportError"} :
          IF choice = "save"
          THEN /\ exported' = [written |-> TRUE, rows |-> data_df]
               /\ dialog' = "Exported"
          ELSE /\ exported' = NoExport
               /\ dialog' = (IF choice = "cancel" THEN "none" ELSE "Export error")
    /\ ui' = "idle"
    /\ data_df' = <<>>
    /\ UNCHANGED <<snap7, client, variable_rows, active_vars>>
    /\ UNCHANGED <<polling, temp_file, clock>>
    /\ UNCHANGED localVars
    /\ UNCHANGED histVars
    /\ UNCHANGED parseVars

\* export_excel, from the return of the file dialog (262-269)
ExportEnd ==
    /\ ui = "export"
    /\ \E choice \in {"cancel", "save", "ImportError"} :
          IF choice = "save"
          THEN /\ exported' = [written |-> TRUE, rows |-> data_df]
               /\ dialog' = "Exported"
          ELSE /\ exported' = NoExport
               /\ dialog' = (IF choice = "cancel" THEN "none" ELSE "Export error")
    /\ ui' = "idle"
    /\ UNCHANGED <<snap7, client, variable_rows, active_vars>>
    /\ UNCHANGED pollVars
    /\ UNCHANGED parseVars

\* clear_data, the question and self.data_df = pd.DataFrame() (271-274)
ClearBegin ==
    /\ ui = "idle"
    /\ \E yes \in BOOLEAN :
          IF yes
          THEN /\ data_df' = <<>>
               /\ ui' = "clear"
          ELSE /\ data_df' = data_df
               /\ ui' = "idle"
    /\ dialog' = "none"
    /\ exported' = NoExport
    /\ UNCHANGED <<snap7, client, variable_rows, active_vars>>
    /\ UNCHANGED <<polling, temp_file, clock>>
    /\ UNCHANGED localVars
    /\ UNCHANGED histVars
    /\ UNCHANGED parseVars

\* clear_data, the removal of the temp file (275-277)
ClearRemove ==
    /\ ui = "clear"
    /\ temp_file' = NoFile
    /\ ui' = "idle"
    /\ dialog' = "none"
    /\ exported' = NoExport
    /\ UNCHANGED <<snap7, client, variable_rows, active_vars>>
    /\ UNCHANGED <<polling, data_df, clock>>
    /\ UNCHANGED localVars
    /\ UNCHANGED histVars
    /\ UNCHANGED parseVars

\* ------------------------------------------------------------- _poll (211-232)
\* What self.client.db_read(db, start, read_len) can do: raise, or return bytes
\* (the PLC's, or fewer than asked for).
PlcBytes == <<192, 64, 0, 0>>
DbReadOutcomes(read_len) ==
    { Raise("RuntimeError"),
      [tag |-> "bytes", data |-> SubSeq(PlcBytes, 1, read_len)],
      [tag |-> "bytes", data |-> <<>>] }

\* A step of a poll thread opens no dialog of the Tk thread and writes no workbook.
Quiet ==
    /\ dialog' = "none"
    /\ exported' = NoExport

ExitThread(t) ==
    /\ pc' = [pc EXCEPT ![t] = "none"]
    /\ read_settings' = [read_settings EXCEPT ![t] = <<>>]
    /\ idx' = [idx EXCEPT ![t] = 0]
    /\ row' = [row EXCEPT ![t] = NoRow]
    /\ tmp_df' = [tmp_df EXCEPT ![t] = <<>>]
    /\ header' = [header EXCEPT ![t] = FALSE]

\* The thread's first statements (212-216): float() of the interval and the
\* read_len lookup are outside the try, so ValueError or KeyError ends the thread.
PollInit(t) ==
    /\ pc[t] = "init"
    /\ \E interval \in IntervalChoices :
       IF \/ ~IsFloatString(interval)
          \/ \E i \in 1..Len(active_vars) : active_vars[i][3] \notin DOMAIN ReadLen
       THEN ExitThread(t)
       ELSE /\ read_settings' =
                  [read_settings EXCEPT ![t] =
                      [i \in 1..Len(active_vars) |->
                          <<active_vars[i][1], active_vars[i][2], active_vars[i][3],
                            ReadLen[active_vars[i][3]]>>]]
            /\ pc' = [pc EXCEPT ![t] = "check"]
            /\ UNCHANGED <<idx, row, tmp_df, header>>
    /\ UNCHANGED formVars
    /\ Quiet
    /\ UNCHANGED <<polling, data_df, temp_file, clock>>
    /\ UNCHANGED histVars
    /\ UNCHANGED parseVars

\* A loop that never looks at the flag.
LoopConditionAlways == TRUE

\* while self.polling (217)
LoopCondition == polling

\* The loop test and, when it passes, row = {"timestamp": datetime.now()} (217-218)
PollCheck(t) ==
    /\ pc[t] = "check"
    /\ IF LoopCondition
       THEN /\ clock < MaxCycles
            /\ clock' = clock + 1
            /\ row' = [row EXCEPT ![t] = [timestamp |-> clock + 1, cells |-> <<>>]]
            /\ idx' = [idx EXCEPT ![t] = 1]
            /\ pc' = [pc EXCEPT ![t] = IF read_settings[t] = <<>> THEN "concat" ELSE "read"]
            /\ UNCHANGED <<read_settings, tmp_df, header>>
       ELSE /\ ExitThread(t)
            /\ clock' = clock
    /\ UNCHANGED formVars
    /\ Quiet
    /\ UNCHANGED <<polling, data_df, temp_file>>
    /\ UNCHANGED histVars
    /\ UNCHANGED parseVars

\* An except clause that logs the partial row and goes on polling.
ReadErrorRetry(t) ==
    /\ polling' = polling
    /\ failed' = failed \cup {row[t].timestamp}
    /\ data_df' = Append(data_df, row[t])
    /\ pc' = [pc EXCEPT ![t] = "check"]
    /\ idx' = [idx EXCEPT ![t] = 0]
    /\ row' = [row EXCEPT ![t] = NoRow]
    /\ UNCHANGED <<read_settings, tmp_df, header>>

\* The except clause (228-231): the flag goes down, the error dialog opens, and
\* the break waits for the dialog to be closed.
ReadError(t) ==
    /\ polling' = FALSE
    /\ failed' = failed \cup {row[t].timestamp}
    /\ data_df' = data_df
    /\ pc' = [pc EXCEPT ![t] = "dialog"]
    /\ idx' = [idx EXCEPT ![t] = 0]
    /\ row' = [row EXCEPT ![t] = NoRow]
    /\ UNCHANGED <<read_settings, tmp_df, header>>

\* One turn of the for loop (220-224).  self.client is looked up on every turn:
\* None has no db_read (AttributeError).
PollRead(t) ==
    /\ pc[t] = "read"
    /\ LET rs == read_settings[t][idx[t]]
           col == ColumnName(rs[1], rs[2], rs[3])
       IN IF client = "None"
          THEN ReadError(t)
          ELSE \E raw \in DbReadOutcomes(rs[4]) :
                 LET value == IF raw.tag = "raise" THEN raw ELSE _parse_data(raw.data, rs[3])
                 IN IF value.tag = "raise"
                    THEN ReadError(t)
                    ELSE /\ row' = [row EXCEPT ![t].cells = DictSet(@, col, value)]
                         /\ idx' = [idx EXCEPT ![t] = @ + 1]
                         /\ pc' = [pc EXCEPT ![t] =
                                      IF idx[t] = Len(read_settings[t]) THEN "concat" ELSE "read"]
                         /\ UNCHANGED <<polling, failed, data_df, read_settings, tmp_df, header>>
    /\ UNCHANGED formVars
    /\ Quiet
    /\ UNCHANGED <<temp_file, clock, stopped>>
    /\ UNCHANGED parseVars

\* pd.concat([self.data_df, pd.DataFrame([row])], ...): the table is loaded (225)
PollConcat(t) ==
    /\ pc[t] = "concat"
    /\ tmp_df' = [tmp_df EXCEPT ![t] = data_df]
    /\ pc' = [pc EXCEPT ![t] = "store"]
    /\ UNCHANGED formVars
    /\ Quiet
    /\ UNCHANGED <<polling, data_df, temp_file, clock, read_settings, idx, row, header>>
    /\ UNCHANGED histVars
    /\ UNCHANGED parseVars

\* self.data_df = <the concatenation> (225)
PollStore(t) ==
    /\ pc[t] = "store"
    /\ data_df' = Append(tmp_df[t], row[t])
    /\ tmp_df' = [tmp_df EXCEPT ![t] = <<>>]
    /\ pc' = [pc EXCEPT ![t] = "append"]
    /\ UNCHANGED formVars
    /\ Quiet
    /\ UNCHANGED <<polling, temp_file, clock, read_settings, idx, row, header>>
    /\ UNCHANGED histVars
    /\ UNCHANGED parseVars

\* _append_temp_file: header = not os.path.exists(self.temp_file) (280)
PollAppendHeader(t) ==
    /\ pc[t] = "append"
    /\ header' = [header EXCEPT ![t] = ~temp_file.exists]
    /\ pc' = [pc EXCEPT ![t] = "write"]
    /\ UNCHANGED formVars
    /\ Quiet
    /\ UNCHANGED <<polling, data_df, temp_file, clock, read_settings, idx, row, tmp_df>>
    /\ UNCHANGED histVars
    /\ UNCHANGED parseVars

\* _append_temp_file: to_csv in append mode (281), then _update_plot (227) and
\* time.sleep(interval) (232), which touch nothing shared: the thread is next at
\* the loop test.
PollWrite(t) ==
    /\ pc[t] = "write"
    /\ temp_file' = ToCsvAppend(temp_file, row[t], header[t])
    /\ header' = [header EXCEPT ![t] = FALSE]
    /\ row' = [row EXCEPT ![t] = NoRow]
    /\ idx' = [idx EXCEPT ![t] = 0]
    /\ pc' = [pc EXCEPT ![t] = "check"]
    /\ UNCHANGED formVars
    /\ Quiet
    /\ UNCHANGED <<polling, data_df, clock, read_settings, tmp_df>>
    /\ UNCHANGED histVars
    /\ UNCHANGED parseVars

\* The error dialog is closed and the break leaves the loop (230-231)
PollDismiss(t) ==
    /\ pc[t] = "dialog"
    /\ ExitThread(t)
    /\ UNCHANGED formVars
    /\ Quiet
    /\ UNCHANGED <<polling, data_df, temp_file, clock>>
    /\ UNCHANGED histVars
    /\ UNCHANGED parseVars

PollStep(t) ==
    \/ PollInit(t)
    \/ PollCheck(t)
    \/ PollRead(t)
    \/ PollConcat(t)
    \/ PollStore(t)
    \/ PollAppendHeader(t)
    \/ PollWrite(t)
    \/ PollDismiss(t)

Next ==
    \/ ConnectBegin
    \/ ConnectEnd
    \/ StartBegin
    \/ StartAppend
    \/ StartSpawn
    \/ StopPolling
    \/ ResumePolling
    \/ ExportBegin
    \/ ExportEnd
    \/ ClearBegin
    \/ ClearRemove
    \/ \E t \in Threads : PollStep(t)

Spec == Init /\ [][Next]_vars

\* A first run: no temp file, snap7 installed.
InitFresh ==
    /\ Init
    /\ snap7
    /\ temp_file = NoFile

SpecFresh == InitFresh /\ [][Next]_vars

\* A later run: the temp file holds the row of an earlier run, so the table and
\* the form start with it (two variables, one row).
InitEarlier ==
    /\ Init
    /\ snap7
    /\ temp_file = EarlierFile

SpecEarlier == InitEarlier /\ [][Next]_vars

\* Every blocking read, sleep and file call of a poll thread returns.
Fairness == \A t \in Threads : WF_vars(PollStep(t))

SpecLive == Init /\ [][Next]_vars /\ Fairness

\* ------------------------------------------------ _parse_data on its own
ByteChoices == {0, 1, 127, 128, 255}
TypeChoices == {"BOOL", "INT", "DINT", "REAL", "WORD", "bool"}
DataChoices ==
    UNION {[1..n -> ByteChoices] : n \in {0, 1, 2, 4}}

InitParse ==
    /\ snap7 = TRUE
    /\ client = "None"
    /\ polling = FALSE
    /\ active_vars = <<>>
    /\ temp_file = NoFile
    /\ data_df = <<>>
    /\ variable_rows = <<DefaultVariableRow>>
    /\ exported = NoExport
    /\ dialog = "none"
    /\ ui = "idle"
    /\ clock = 0
    /\ IdleLocals
    /\ failed = {}
    /\ stopped = FALSE
    /\ p_data \in DataChoices
    /\ p_type \in TypeChoices
    /\ p_result = Pending

\* value = _parse_data(raw, data_type) (222)
ParseCall ==
    /\ p_result = Pending
    /\ p_result' = _parse_data(p_data, p_type)
    /\ UNCHANGED <<p_data, p_type>>
    /\ UNCHANGED formVars
    /\ UNCHANGED <<exported, dialog>>
    /\ UNCHANGED pollVars

NextParse == ParseCall

SpecParse == InitParse /\ [][NextParse]_vars

\* ------------------------------------------------------------------ claims
InLoop(t) == pc[t] \in {"check", "read", "concat", "store", "append", "write"}
InCycle(t) == pc[t] \in {"read", "concat", "store", "append", "write"}
BeginsCycle(t) == pc[t] = "check" /\ pc'[t] \in {"read", "concat"}
Stores(t) == pc[t] = "store" /\ pc'[t] = "append"
ClearConfirmed == ui = "idle" /\ ui' = "clear"
ClearRemoves == ui = "clear" /\ ui' = "idle"
Columns(vs) == {ColumnName(vs[i][1], vs[i][2], vs[i][3]) : i \in 1..Len(vs)}
Timestamps(rows) == {rows[i].timestamp : i \in 1..Len(rows)}
FileTimestamps(f) == {f.lines[i].row.timestamp : i \in {j \in 1..Len(f.lines) : f.lines[j].kind = "row"}}

\* C1: at most one poll thread is inside _poll's loop (or its sleep) at any time.
C1_SinglePoller == Cardinality({t \in Threads : InLoop(t)}) <= 1

\* C2: when a read or the decoding raises in a poll cycle, the thread puts the
\* polling flag down, opens the error dialog and does nothing after it but leave;
\* the step adds nothing to the table or the temp file, and no row of a failed
\* cycle is ever in either; a cycle begins only while the flag is up, and the flag
\* goes up only in Start or Resume.
C2_StopAndShowError ==
    /\ [](\A ts \in failed : ts \notin Timestamps(data_df) /\ ts \notin FileTimestamps(temp_file))
    /\ [][\A t \in Threads :
            /\ (pc[t] = "read" /\ pc'[t] \notin {"read", "concat"})
                  => /\ pc'[t] = "dialog"
                     /\ ~polling'
                     /\ row[t].timestamp \in failed'
                     /\ data_df' = data_df
                     /\ temp_file' = temp_file
            /\ pc[t] = "dialog"
                  => /\ pc'[t] \in {"dialog", "none"}
                     /\ pc'[t] = "none" => (data_df' = data_df /\ temp_file' = temp_file)
            /\ BeginsCycle(t) => polling
            /\ (~polling /\ polling')
                  => /\ ui \in {"start", "idle"} /\ ui' = "idle"
                     /\ \E u \in Threads : pc[u] = "none" /\ pc'[u] = "init"
         ]_vars

\* Witness of C2: a cycle has failed; its thread waits in the error dialog with the
\* flag down, while the table already holds a row.
C2_Witness ==
    \E t \in Threads : pc[t] = "dialog" /\ ~polling /\ failed # {} /\ Len(data_df) > 0

\* C3: the table changes only when a poll thread stores its row, which appends
\* exactly that one row, holding the columns of active_vars (looked at while
\* start_polling is not rebuilding the list), or when Clear is confirmed; its row
\* count decreases only by Clear.
C3_OneRowPerCycle ==
    [][/\ \A t \in Threads :
            Stores(t) => /\ data_df' = Append(data_df, row[t])
                         /\ ui # "start" => Keys(row[t].cells) = Columns(active_vars)
       /\ data_df' # data_df => (ClearConfirmed \/ \E t \in Threads : Stores(t))
       /\ Len(data_df') < Len(data_df) => ClearConfirmed
      ]_vars

\* C4: whenever no poll cycle and no Clear is in progress, the temp file has as
\* many data rows as the table.
C4_TableAndFileInStep ==
    ((\A t \in Threads : ~InCycle(t)) /\ ui # "clear")
        => DataRows(temp_file) = Len(data_df)

\* C5: a step of export_excel leaves the table, the temp file, active_vars, the
\* client and the polling flag as they are; on an empty table it shows "No data"
\* and writes nothing; what it writes is the table.
C5_ExportChangesNothingElse ==
    [][((ui = "export" /\ ui' = "idle") \/ (ui = "idle" /\ ui' = "export")
          \/ dialog' = "No data" \/ exported'.written)
        => /\ UNCHANGED <<data_df, temp_file, active_vars, client, polling>>
           /\ (ui = "idle" /\ data_df = <<>>)
                 => (dialog' = "No data" /\ ~exported'.written /\ ui' = "idle")
           /\ exported'.written => (exported'.rows = data_df /\ data_df # <<>>)
      ]_vars

\* Witness of C5: a workbook was written while the poller runs.
C5_Witness == exported.written /\ polling /\ Len(exported.rows) > 0

\* Byte i (1 is the most significant) of the n-byte two's-complement form of v
Pow256(k) == IF k = 0 THEN 1 ELSE IF k = 1 THEN 256 ELSE IF k = 2 THEN 65536 ELSE 16777216
TwosComplementByte(v, n, i) == (v \div Pow256(n - i)) % 256

\* C6: on data of the requested length BOOL is true iff the first byte is not 0,
\* INT and DINT are the integer whose big-endian two's-complement bytes are the
\* first 2 and 4 bytes (so within -32768..32767 and -2^31..2^31-1), and a type
\* name other than BOOL, INT, DINT, REAL raises ValueError.
C6_ParseData ==
    p_result # Pending =>
        /\ (p_type = "BOOL" /\ Len(p_data) = 1)
              => p_result = [tag |-> "bool", b |-> (p_data[1] # 0)]
        /\ (p_type = "INT" /\ Len(p_data) = 2)
              => /\ p_result.tag = "int"
                 /\ p_result.v \in (-32768)..32767
                 /\ \A i \in 1..2 : TwosComplementByte(p_result.v, 2, i) = p_data[i]
        /\ (p_type = "DINT" /\ Len(p_data) = 4)
              => /\ p_result.tag = "int"
                 /\ p_result.v >= (-2147483647) - 1
                 /\ p_result.v <= 2147483647
                 /\ \A i \in 1..4 : TwosComplementByte(p_result.v, 4, i) = p_data[i]
        /\ p_type \notin {"BOOL", "INT", "DINT", "REAL"} => p_result = Raise("ValueError")

\* Witness of C6: a negative DINT was decoded.
C6_Witness ==
    p_type = "DINT" /\ p_data = <<255, 255, 255, 128>> /\ p_result = [tag |-> "int", v |-> -128]

\* C7: whenever the polling flag is up, the client is set.
C7_PollingRequiresClient == polling => client # "None"

C9_PollingMeansLivePoller == polling => \E t \in Threads : pc[t] # "none"

====
